---- MODULE Spec2Model ----
(***************************************************************************)
(* Page based B+ tree (src/page_based_bplustree): the file of fixed-size   *)
(* pages, the pager with its free-list, the node algorithms (find, insert  *)
(* with preemptive split, delete with borrow / merge) and the store        *)
(* facade.                                                                 *)
(*                                                                         *)
(* A u32 is modelled at a reduced width: U32_MAX stands for 0xFFFF_FFFF,   *)
(* the wire value of "absent".  Option<u32> is modelled by the same        *)
(* domain with U32_MAX for None wherever the code converts through         *)
(* read_u32_with_null / get_u32_be_bytes_from_option; the result of find   *)
(* and delete, which is never converted, uses the separate value None.     *)
(*                                                                         *)
(* Vec indices are 0-based as in the source: At(s, i) is s[i].             *)
(*                                                                         *)
(* The steps of an operation are local operators with parameters: in       *)
(* LET Read(r) == ... IN Read(read_page(c, id)), Read(r) is what the       *)
(* operation does once the read has given r.  An early return or a panic   *)
(* of the source is the branch of a step that does not go on to the next.  *)
(***************************************************************************)
EXTENDS Integers, Sequences, FiniteSets, TLC

\* ------------------------------------------------------------------ bounds
MaxKey == 11         \* keys offered to insert / delete / find: 1..MaxKey
MaxVal == 2          \* values offered to insert: 1..MaxVal
MaxOps == 2          \* number of insert / delete calls in one behaviour
MaxDepth == 8        \* recursion budget of one descent (stack)
U32Bits == 8         \* model width of a u32
MaxPages == 3        \* pages a caller of the pager alone lets the file grow to
MaxDegree == 4       \* the degree D the store is created with

\* --------------------------------------------------------------- constants
U32_MAX == 2 ^ U32Bits - 1
None == 0 - 1        \* Option::None of a find / delete result

Keys == 1 .. MaxKey
Values == 1 .. MaxVal

\* ------------------------------------------------------------ Vec helpers
At(s, i) == s[i + 1]
InRange(s, i) == i >= 0 /\ i < Len(s)
Push(s, x) == Append(s, x)
InsertAt(s, i, x) == SubSeq(s, 1, i) \o <<x>> \o SubSeq(s, i + 1, Len(s))
RemoveAt(s, i) == SubSeq(s, 1, i) \o SubSeq(s, i + 2, Len(s))
SetAt(s, i, x) == [s EXCEPT ![i + 1] = x]
Pop(s) == SubSeq(s, 1, Len(s) - 1)
Last(s) == s[Len(s)]
SetMin(S) == CHOOSE x \in S : \A y \in S : x <= y
MaxOf(a, b) == IF a >= b THEN a ELSE b

\* Vec::split_off(at): the vector keeps [0, at), the result is [at, len)
SplitKeep(s, at) == SubSeq(s, 1, at)
SplitOff(s, at) == SubSeq(s, at + 1, Len(s))

\* ------------------------------------------------------------- page layout
KeySlots(d) == d - 1
ChildSlots(d) == d
ValueSlots(d) == d - 1
key_offset == 0
children_offset(d) == key_offset + KeySlots(d)
values_offset(d) == children_offset(d) + ChildSlots(d)
PageWords(d) == KeySlots(d) + ChildSlots(d) + ValueSlots(d)

\* the bytes of a page before the node arrays
PAGE_HEADER_SIZE == 9

\* The byte layout as the code computes it. max_degree is a u16 and a product
\* in u16 that does not fit panics in a build with overflow checks (debug)
\* and wraps in one without: [panic, value].
U16Bits == 16
U16_MAX == 2 ^ U16Bits - 1
mul_u16(a, b, debug) ==
  [panic |-> debug /\ a * b > U16_MAX, value |-> (a * b) % (U16_MAX + 1)]

key_offset_bytes == PAGE_HEADER_SIZE
key_array_size(d, debug) == mul_u16(d - 1, 4, debug)
children_offset_bytes(d, debug) ==
  [key_array_size(d, debug) EXCEPT !.value = key_offset_bytes + @]
children_array_size(d) == d * 4
values_offset_bytes(d, debug) ==
  [children_offset_bytes(d, debug) EXCEPT !.value = @ + children_array_size(d)]

\* NodePager::page_size: children, keys and values are products in u16, their
\* sum is taken in u32
page_size(d, debug) ==
  [panic |-> mul_u16(d, 4, debug).panic \/ mul_u16(d - 1, 4, debug).panic,
   value |-> mul_u16(d, 4, debug).value + mul_u16(d - 1, 4, debug).value
               + mul_u16(d - 1, 4, debug).value + PAGE_HEADER_SIZE]

\* a slot never written: the file system fills a hole with zero bytes
ZeroPage(d) ==
  [page_id |-> 0, deleted |-> 0, next_deleted_page |-> 0,
   words |-> [i \in 1 .. PageWords(d) |-> 0]]

\* ------------------------------------------------------------ NodePage
\* a remark on what the operation did, for the record of the call
Note(c, tag) == [c EXCEPT !.notes = @ \cup {tag}]

\* dirty marking of a node whose content was changed in memory
Touch(n) == [n EXCEPT !.changed = TRUE]

\* a variant of NodePage::new whose node counts as unchanged, so that
\* write_page skips it
NewNodeClean(id) ==
  [id |-> id, deleted |-> FALSE, next_deleted_page |-> U32_MAX,
   keys |-> <<>>, children |-> <<>>, values |-> <<>>, changed |-> FALSE]

\* NodePage::new
NewNode(id) ==
  [id |-> id, deleted |-> FALSE, next_deleted_page |-> U32_MAX,
   keys |-> <<>>, children |-> <<>>, values |-> <<>>, changed |-> TRUE]

min_keys(d) == ((d - 1) + 1) \div 2
max_keys(d) == d - 1
is_leaf(n) == Len(n.children) = 0
is_full(n, d) == Len(n.keys) >= max_keys(d)
can_lend_keys(n, d) == Len(n.keys) > min_keys(d)
\* is_less_than_minimal with <= for <: a node holding exactly min_keys keys
\* counts as too small
is_less_than_minimal_inclusive(n, d) == Len(n.keys) <= min_keys(d)
is_less_than_minimal(n, d) == Len(n.keys) < min_keys(d)

\* NodePage::delete_page
NodeDeletePage(n, next_deleted) ==
  Touch([n EXCEPT !.deleted = TRUE, !.keys = <<>>, !.children = <<>>,
                  !.values = <<>>, !.next_deleted_page = next_deleted])

\* a variant of NodePage::reallocate that keeps the keys and values
ReallocateKeepsContent(n) ==
  Touch([n EXCEPT !.deleted = FALSE, !.children = <<>>, !.next_deleted_page = U32_MAX])

\* NodePage::reallocate
Reallocate(n) ==
  Touch([n EXCEPT !.deleted = FALSE, !.keys = <<>>, !.children = <<>>,
                  !.values = <<>>, !.next_deleted_page = U32_MAX])

\* ------------------------------------------------------------ codec
\* the prefix of the slots [off, off + n) up to the first sentinel
RECURSIVE ReadArray(_, _, _)
ReadArray(words, off, n) ==
  IF n = 0 \/ words[off + 1] = U32_MAX THEN <<>>
  ELSE <<words[off + 1]>> \o ReadArray(words, off + 1, n - 1)

\* a variant of the decoder that reads the value array from the offset of
\* the children
DecodePageValuesAtChildren(p, d) ==
  [id |-> p.page_id,
   deleted |-> (p.deleted # 0),
   next_deleted_page |-> p.next_deleted_page,
   keys |-> ReadArray(p.words, key_offset, KeySlots(d)),
   children |-> ReadArray(p.words, children_offset(d), ChildSlots(d)),
   values |-> ReadArray(p.words, children_offset(d), ValueSlots(d)),
   changed |-> FALSE]

\* impl From<(Vec<u8>, u16)> for NodePage; a node read is clean
DecodePage(p, d) ==
  [id |-> p.page_id,
   deleted |-> (p.deleted # 0),
   next_deleted_page |-> p.next_deleted_page,
   keys |-> ReadArray(p.words, key_offset, KeySlots(d)),
   children |-> ReadArray(p.words, children_offset(d), ChildSlots(d)),
   values |-> ReadArray(p.words, values_offset(d), ValueSlots(d)),
   changed |-> FALSE]

\* the page buffer of write_page: 0xFF everywhere, then the keys, then the
\* children, then the values, each copied from its offset on
EncodeWords(n, d) ==
  [i \in 1 .. PageWords(d) |->
     IF i - 1 >= values_offset(d) /\ i - 1 - values_offset(d) < Len(n.values)
       THEN At(n.values, i - 1 - values_offset(d))
     ELSE IF i - 1 >= children_offset(d) /\ i - 1 - children_offset(d) < Len(n.children)
       THEN At(n.children, i - 1 - children_offset(d))
     ELSE IF i - 1 - key_offset < Len(n.keys)
       THEN At(n.keys, i - 1 - key_offset)
     ELSE U32_MAX]

\* a copy_from_slice beyond the buffer is an index panic
EncodeFits(n, d) ==
  /\ key_offset + Len(n.keys) <= PageWords(d)
  /\ children_offset(d) + Len(n.children) <= PageWords(d)
  /\ values_offset(d) + Len(n.values) <= PageWords(d)

EncodePage(n, d) ==
  [page_id |-> n.id,
   deleted |-> IF n.deleted THEN 1 ELSE 0,
   next_deleted_page |-> n.next_deleted_page,
   words |-> EncodeWords(n, d)]

\* meta_data_to_bytes
meta_data_to_bytes(m) ==
  [max_degree |-> m.max_degree, number_of_pages |-> m.number_of_pages,
   first_deleted_page |-> m.first_deleted_page, root |-> m.root]

\* ------------------------------------------------------------ NodePager
\* A pager context c is [file, header, meta, panic, overfull, splices, leaf,
\* mem, notes]: the page slots of the file, the 14 header bytes, the shared
\* StoreMetaData, the panic that aborted the operation ("none" while it runs)
\* and, for the record of the call, whether a node too long for its page was
\* written, what the splices after a split did, what was added to a leaf,
\* the in-memory content of each node as write_page last took it and remarks
\* on the repairs of delete.
NoPanic == "none"
Panicked(c) == c.panic # NoPanic
Abort(c, why) == IF Panicked(c) THEN c ELSE [c EXCEPT !.panic = why]
Degree(c) == c.meta.max_degree

\* NodePager::read_page: [ok, node]; read_exact fails past the end of file
read_page(c, page_id) ==
  IF page_id + 1 > Len(c.file)
    THEN [ok |-> FALSE, panic |-> FALSE, node |-> NewNode(0)]
  ELSE IF c.file[page_id + 1].page_id = U32_MAX
    THEN [ok |-> FALSE, panic |-> TRUE, node |-> NewNode(0)]
  ELSE [ok |-> TRUE, panic |-> FALSE,
        node |-> DecodePage(c.file[page_id + 1], Degree(c))]

\* file.seek + file.write at the slot of id
WriteAt(file, id, page, d) ==
  [i \in 1 .. MaxOf(Len(file), id + 1) |->
     IF i = id + 1 THEN page
     ELSE IF i <= Len(file) THEN file[i] ELSE ZeroPage(d)]

\* whether the node has more keys or children than a node of degree d may
Overfull(n, d) == Len(n.keys) > max_keys(d) \/ Len(n.children) > d

\* a variant of NodePager::write_page that does not look at the dirty flag
write_page_unflagged(c, n) ==
  IF n.id = U32_MAX THEN [ok |-> FALSE, c |-> c, node |-> n]
  ELSE IF n.deleted THEN [ok |-> FALSE, c |-> c, node |-> n]
  ELSE IF ~EncodeFits(n, Degree(c))
    THEN [ok |-> FALSE, c |-> Abort(c, "write_page: slice index"), node |-> n]
  ELSE [ok |-> TRUE,
        c |-> [c EXCEPT !.file = WriteAt(c.file, n.id, EncodePage(n, Degree(c)), Degree(c)),
                        !.overfull = @ \/ Overfull(n, Degree(c)),
                        !.mem = (n.id :> [n EXCEPT !.changed = FALSE]) @@ @],
        node |-> [n EXCEPT !.changed = FALSE]]

\* NodePager::write_page: [ok, c, node]; c.overfull records that a page was
\* built from a node with more than max_keys keys or more than D children
write_page(c, n) ==
  IF ~n.changed THEN [ok |-> TRUE, c |-> c, node |-> n]
  ELSE IF n.id = U32_MAX THEN [ok |-> FALSE, c |-> c, node |-> n]
  ELSE IF n.deleted THEN [ok |-> FALSE, c |-> c, node |-> n]
  ELSE IF ~EncodeFits(n, Degree(c))
    THEN [ok |-> FALSE, c |-> Abort(c, "write_page: slice index"), node |-> n]
  ELSE [ok |-> TRUE,
        c |-> [c EXCEPT !.file = WriteAt(c.file, n.id, EncodePage(n, Degree(c)), Degree(c)),
                        !.overfull = @ \/ Overfull(n, Degree(c)),
                        !.mem = (n.id :> [n EXCEPT !.changed = FALSE]) @@ @],
        node |-> [n EXCEPT !.changed = FALSE]]

\* StoreMetaData::set_first_deleted_page
set_first_deleted_page(m, page) ==
  [m EXCEPT !.first_deleted_page = page, !.changed = TRUE]

\* a variant of inc_number_of_pages that does not flag the meta data as changed
inc_number_of_pages_unflagged(m) == [m EXCEPT !.number_of_pages = @ + 1]

\* StoreMetaData::inc_number_of_pages
inc_number_of_pages(m) ==
  [m EXCEPT !.number_of_pages = m.number_of_pages + 1, !.changed = TRUE]

\* NodePager::delete_page: [ok, c]; the node marked deleted is dropped
delete_page(c, page_id) ==
  LET Read(r) ==
        IF r.panic THEN [ok |-> FALSE, c |-> Abort(c, "read_page: invalid id")]
        ELSE IF ~r.ok THEN [ok |-> FALSE, c |-> c]
        ELSE [ok |-> TRUE,
              c |-> [c EXCEPT !.meta = set_first_deleted_page(
                       c.meta, NodeDeletePage(r.node, c.meta.first_deleted_page).id)]]
  IN IF page_id = U32_MAX THEN [ok |-> FALSE, c |-> c]
     ELSE Read(read_page(c, page_id))

\* NodePager::allocate_new_page: [ok, c, node]
allocate_new_page(c) ==
  LET first_deleted == c.meta.first_deleted_page
      Reallocated(w) == [ok |-> w.ok, c |-> w.c, node |-> w.node]
      Read(r) ==
        IF r.panic
          THEN [ok |-> FALSE, c |-> Abort(c, "read_page: invalid id"), node |-> r.node]
        ELSE IF ~r.ok THEN [ok |-> FALSE, c |-> c, node |-> r.node]
        ELSE Reallocated(write_page(
               [c EXCEPT !.meta = set_first_deleted_page(c.meta, r.node.next_deleted_page)],
               Reallocate(r.node)))
      Appended(w) == [ok |-> w.ok, c |-> w.c, node |-> Touch(w.node)]
      Counted(c1) == Appended(write_page(c1, NewNode(c1.meta.number_of_pages - 1)))
  IN IF first_deleted # U32_MAX THEN Read(read_page(c, first_deleted))
     ELSE Counted([c EXCEPT !.meta = inc_number_of_pages(c.meta)])

\* ------------------------------------------------------------ node search
\* NodePage::find_key_index
find_key_index(keys, key) ==
  LET hit == {i \in 0 .. Len(keys) - 1 : key <= At(keys, i)} IN
  IF hit = {}
    THEN [tag |-> "GreaterThanTheLast",
          i |-> IF Len(keys) = 0 THEN 0 ELSE Len(keys) - 1]
  ELSE IF key < At(keys, SetMin(hit))
    THEN [tag |-> "LessThan", i |-> SetMin(hit)]
  ELSE [tag |-> "Equal", i |-> SetMin(hit)]

\* the descent index of insert and delete:
\* keys.iter().enumerate().find(|(_, k)| key < **k).map(|(i, _)| i)
\*     .unwrap_or(self.children.len() - 1)
DescentIndex(n, key) ==
  LET gt == {i \in 0 .. Len(n.keys) - 1 : key < At(n.keys, i)} IN
  IF gt = {} THEN Len(n.children) - 1 ELSE SetMin(gt)

\* NodePage::find: [panic, res]
RECURSIVE NodeFind(_, _, _, _)
NodeFind(c, self, key, fuel) ==
  LET f == find_key_index(self.keys, key) IN
  IF fuel = 0 THEN [panic |-> "stack overflow", res |-> None]
  ELSE IF is_leaf(self)
    THEN IF f.tag = "Equal"
           THEN IF InRange(self.values, f.i)
                  THEN [panic |-> NoPanic, res |-> At(self.values, f.i)]
                  ELSE [panic |-> "find: values index", res |-> None]
           ELSE [panic |-> NoPanic, res |-> None]
  ELSE LET ci == IF f.tag = "LessThan" THEN f.i ELSE f.i + 1 IN
       IF ~InRange(self.children, ci)
         THEN [panic |-> "find: children index", res |-> None]
       ELSE LET r == read_page(c, At(self.children, ci)) IN
            IF ~r.ok THEN [panic |-> "find: read_page unwrap", res |-> None]
            ELSE NodeFind(c, r.node, key, fuel - 1)

\* ------------------------------------------------------------ split
\* NodePage::split: [c, left, right, key]; both halves are allocated and
\* written, the node split keeps its page
split(c, self) ==
  LET middle_value_index == Len(self.keys) \div 2
      right_keys == SplitOff(self.keys, middle_value_index)
      left_keys == SplitKeep(self.keys, middle_value_index)
      leaf == is_leaf(self)
      fits == IF leaf THEN middle_value_index <= Len(self.values)
              ELSE middle_value_index + 1 <= Len(self.children)
      right_children == IF leaf THEN <<>> ELSE SplitOff(self.children, middle_value_index + 1)
      left_children == IF leaf THEN <<>> ELSE SplitKeep(self.children, middle_value_index + 1)
      right_values == IF leaf THEN SplitOff(self.values, middle_value_index) ELSE <<>>
      left_values == IF leaf THEN SplitKeep(self.values, middle_value_index)
                     ELSE self.values
      promoted_key == At(right_keys, 0)
      right_keys2 == IF leaf THEN right_keys ELSE RemoveAt(right_keys, 0)
      Bad(c1, why) == [c |-> Abort(c1, why), left |-> self, right |-> self, key |-> 0]
      RightWritten(w1, w2) ==
        IF ~w2.ok THEN Bad(w2.c, "split: write unwrap")
        ELSE [c |-> w2.c, left |-> w1.node, right |-> w2.node, key |-> promoted_key]
      RightAllocated(w1, a2) ==
        IF ~a2.ok THEN Bad(a2.c, "split: allocate unwrap")
        ELSE RightWritten(w1, write_page(a2.c,
               Touch([a2.node EXCEPT !.values = right_values, !.keys = right_keys2,
                                     !.children = right_children])))
      LeftWritten(w1) ==
        IF ~w1.ok THEN Bad(w1.c, "split: write unwrap")
        ELSE RightAllocated(w1, allocate_new_page(w1.c))
      LeftAllocated(a1) ==
        IF ~a1.ok THEN Bad(a1.c, "split: allocate unwrap")
        ELSE LeftWritten(write_page(a1.c,
               Touch([a1.node EXCEPT !.values = left_values, !.keys = left_keys,
                                     !.children = left_children])))
  IN IF Len(right_keys) = 0 \/ ~fits THEN Bad(c, "split: index")
     ELSE LeftAllocated(allocate_new_page(c))

\* ------------------------------------------------------------ insert
\* NodePage::insert_key_value: [panic, node]
insert_key_value(self, key, value) ==
  LET f == find_key_index(self.keys, key) IN
  IF f.tag = "LessThan"
    THEN IF f.i > Len(self.values)
           THEN [panic |-> "insert_key_value: values index", node |-> self]
           ELSE [panic |-> NoPanic,
                 node |-> Touch([self EXCEPT !.keys = InsertAt(self.keys, f.i, key),
                                             !.values = InsertAt(self.values, f.i, value)])]
  ELSE IF f.tag = "GreaterThanTheLast"
    THEN [panic |-> NoPanic,
          node |-> Touch([self EXCEPT !.keys = Push(self.keys, key),
                                      !.values = Push(self.values, value)])]
  ELSE [panic |-> NoPanic, node |-> self]

\* a variant of SpliceInsertedLast that links the parent itself where the
\* right half belongs
SpliceInsertedLastLinksParent(self, node_index, lnode, rnode, new_key, key) ==
  [node |-> Touch([self EXCEPT
              !.keys = Push(self.keys, new_key),
              !.children = Push(SetAt(self.children, node_index, lnode.id), self.id)]),
   node_index |-> IF key > new_key THEN node_index + 1 ELSE node_index]

\* step 2 of NodePage::insert, the child being full: [c, node, node_index];
\* the promoted key and the ids of the halves are spliced into the parent
SpliceInsertedLast(self, node_index, lnode, rnode, new_key, key) ==
  [node |-> Touch([self EXCEPT
              !.keys = Push(self.keys, new_key),
              !.children = Push(SetAt(self.children, node_index, lnode.id), rnode.id)]),
   node_index |-> IF key > new_key THEN node_index + 1 ELSE node_index]

SpliceInsertedInner(self, node_index, lnode, rnode, new_key, key) ==
  [node |-> Touch([self EXCEPT
              !.keys = InsertAt(self.keys, node_index, new_key),
              !.children = InsertAt(InsertAt(self.children, node_index, rnode.id),
                                    node_index, lnode.id)]),
   node_index |-> IF key < new_key THEN node_index - 1 ELSE node_index]

\* what a splice did, for the record of the call: whether the parent cites
\* the two halves next to each other around the promoted key, whether it
\* still cites the child that was split, and whether the descent goes on in
\* the half whose range holds the key
SpliceTags(child, s, sp, key) ==
  LET ch == sp.node.children
      ks == sp.node.keys
      half == IF key < s.key THEN s.left.id ELSE s.right.id
  IN {IF \E i \in 0 .. Len(ch) - 2 :
            /\ At(ch, i) = s.left.id
            /\ At(ch, i + 1) = s.right.id
            /\ InRange(ks, i)
            /\ At(ks, i) = s.key
        THEN "halves in place" ELSE "halves out of place"}
     \cup {"old child kept" : i \in {j \in 0 .. Len(ch) - 1 : At(ch, j) = child.id}}
     \cup {IF InRange(ch, sp.node_index) /\ At(ch, sp.node_index) = half
             THEN "right half taken" ELSE "wrong half taken"}

SplitChild(c, self, child, node_index, key) ==
  LET Spliced(s, sp) ==
        IF sp.node_index < 0
          THEN [c |-> Abort([s.c EXCEPT !.splices = @ \cup SpliceTags(child, s, sp, key)],
                            "insert: node_index underflow"),
                node |-> sp.node, node_index |-> 0]
        ELSE [c |-> [s.c EXCEPT !.splices = @ \cup SpliceTags(child, s, sp, key)],
              node |-> sp.node, node_index |-> sp.node_index]
      Halved(s) ==
        IF Panicked(s.c) THEN [c |-> s.c, node |-> self, node_index |-> node_index]
        ELSE IF node_index > Len(self.keys)
          THEN [c |-> Abort(s.c, "insert: Vec::insert index > len"), node |-> self,
                node_index |-> node_index]
        ELSE Spliced(s, IF Len(self.keys) = node_index
                          THEN SpliceInsertedLast(self, node_index, s.left, s.right, s.key, key)
                          ELSE SpliceInsertedInner(self, node_index, s.left, s.right, s.key, key))
  IN Halved(split(c, child))

\* what insert_key_value did to the leaf, for the record of the call: whether
\* it added a key and whether the leaf had room for one
LeafTags(before, after, d) ==
  IF Len(after.keys) = Len(before.keys) THEN {}
  ELSE {IF Len(before.keys) < max_keys(d) THEN "added with room" ELSE "added to a full leaf"}

\* NodePage::insert: [c, node], node being self as the caller holds it
RECURSIVE NodeInsert(_, _, _, _, _)
NodeInsert(c, self, key, value, fuel) ==
  LET node_index == DescentIndex(self, key)
      InLeaf(l) ==
        [c |-> IF l.panic = NoPanic
                 THEN [c EXCEPT !.leaf = @ \cup LeafTags(self, l.node, Degree(c))]
                 ELSE Abort(c, l.panic),
         node |-> l.node]
      Written(sc, w) ==
        IF ~w.ok THEN [c |-> Abort(w.c, "insert: write_page unwrap"), node |-> sc.node]
        ELSE [c |-> w.c, node |-> sc.node]
      Inserted(sc, rec) ==
        IF Panicked(rec.c) THEN [c |-> rec.c, node |-> sc.node]
        ELSE Written(sc, write_page(rec.c, rec.node))
      ChildRead(sc, child) ==
        IF ~child.ok THEN [c |-> Abort(sc.c, "insert: read_page unwrap"), node |-> sc.node]
        ELSE Inserted(sc, NodeInsert(sc.c, child.node, key, value, fuel - 1))
      \* step 3: sc is [c, node, node_index] after step 2
      Descend(r0, do_split, sc) ==
        IF Panicked(sc.c) THEN [c |-> sc.c, node |-> sc.node]
        ELSE IF ~InRange(sc.node.children, sc.node_index)
          THEN [c |-> Abort(sc.c, "insert: children index"), node |-> sc.node]
        ELSE ChildRead(sc, IF do_split
                             THEN read_page(sc.c, At(sc.node.children, sc.node_index))
                             ELSE r0)
      \* step 2
      SplitIfFull(r0, do_split) ==
        Descend(r0, do_split,
                IF do_split THEN SplitChild(c, self, r0.node, node_index, key)
                ELSE [c |-> c, node |-> self, node_index |-> node_index])
      Read(r0) ==
        IF ~r0.ok THEN [c |-> Abort(c, "insert: read_page unwrap"), node |-> self]
        ELSE SplitIfFull(r0, is_full(r0.node, Degree(c)))
  IN IF fuel = 0 THEN [c |-> Abort(c, "stack overflow"), node |-> self]
     ELSE IF is_leaf(self) THEN InLeaf(insert_key_value(self, key, value))
     ELSE IF ~InRange(self.children, node_index)
       THEN [c |-> Abort(c, "insert: children index"), node |-> self]
     ELSE Read(read_page(c, At(self.children, node_index)))

\* ------------------------------------------------------------ delete
\* The repair of NodePage::delete before the descent.  Each branch gives
\* [c, node, target]: the context, self and the node the delete goes on in.
\* why # NoPanic: the index or unwrap that panics in the branch.

\* borrow from the left sibling
BorrowLeft(c, self, target_node, left_node, node_index) ==
  LET leaf == is_leaf(target_node)
      why == IF leaf /\ Len(left_node.values) = 0 THEN "borrow: values pop unwrap"
             ELSE IF ~leaf /\ Len(left_node.children) = 0 THEN "borrow: children pop unwrap"
             ELSE IF ~InRange(self.keys, node_index - 1) THEN "borrow: keys index"
             ELSE NoPanic
      t == IF leaf
             THEN [target_node EXCEPT !.keys = InsertAt(@, 0, Last(left_node.keys)),
                                      !.values = InsertAt(@, 0, Last(left_node.values))]
             ELSE [target_node EXCEPT !.keys = InsertAt(@, 0, At(self.keys, node_index - 1)),
                                      !.children = InsertAt(@, 0, Last(left_node.children))]
      l == IF leaf
             THEN [left_node EXCEPT !.keys = Pop(@), !.values = Pop(@)]
             ELSE [left_node EXCEPT !.keys = Pop(@), !.children = Pop(@)]
      p == [self EXCEPT !.keys = SetAt(@, node_index - 1,
                                       IF leaf THEN At(t.keys, 0) ELSE Last(left_node.keys))]
      SiblingWritten(w1, w2) ==
        IF ~w2.ok THEN [c |-> Abort(w2.c, "borrow: write_page unwrap"), node |-> self,
                        target |-> target_node]
        ELSE [c |-> w2.c, node |-> Touch(p), target |-> w1.node]
      TargetWritten(w1) ==
        IF ~w1.ok THEN [c |-> Abort(w1.c, "borrow: write_page unwrap"), node |-> self,
                        target |-> target_node]
        ELSE SiblingWritten(w1, write_page(w1.c, Touch(l)))
  IN IF why # NoPanic THEN [c |-> Abort(c, why), node |-> self, target |-> target_node]
     ELSE TargetWritten(write_page(c, Touch(t)))

\* borrow from the right sibling
BorrowRight(c, self, target_node, right_node, node_index) ==
  LET leaf == is_leaf(target_node)
      why == IF leaf /\ Len(right_node.values) = 0 THEN "borrow: values remove"
             ELSE IF ~leaf /\ Len(right_node.children) = 0 THEN "borrow: children remove"
             ELSE IF ~InRange(self.keys, node_index) THEN "borrow: keys index"
             ELSE IF leaf /\ Len(right_node.keys) < 2 THEN "borrow: keys index"
             ELSE NoPanic
      t == IF leaf
             THEN [target_node EXCEPT !.keys = Push(@, At(right_node.keys, 0)),
                                      !.values = Push(@, At(right_node.values, 0))]
             ELSE [target_node EXCEPT !.keys = Push(@, At(self.keys, node_index)),
                                      !.children = Push(@, At(right_node.children, 0))]
      r == IF leaf
             THEN [right_node EXCEPT !.keys = RemoveAt(@, 0), !.values = RemoveAt(@, 0)]
             ELSE [right_node EXCEPT !.keys = RemoveAt(@, 0), !.children = RemoveAt(@, 0)]
      p == [self EXCEPT !.keys = SetAt(@, node_index,
                                       IF leaf THEN At(r.keys, 0) ELSE At(right_node.keys, 0))]
      SiblingWritten(w1, w2) ==
        IF ~w2.ok THEN [c |-> Abort(w2.c, "borrow: write_page unwrap"), node |-> self,
                        target |-> target_node]
        ELSE [c |-> w2.c, node |-> Touch(p), target |-> w1.node]
      TargetWritten(w1) ==
        IF ~w1.ok THEN [c |-> Abort(w1.c, "borrow: write_page unwrap"), node |-> self,
                        target |-> target_node]
        ELSE SiblingWritten(w1, write_page(w1.c, Touch(r)))
  IN IF why # NoPanic THEN [c |-> Abort(c, why), node |-> self, target |-> target_node]
     ELSE TargetWritten(write_page(c, Touch(t)))

\* merge the target into the left sibling; the delete goes on in the left
MergeLeft(c, self, target_node, left_node, node_index) ==
  LET left_index == node_index - 1
      why == IF ~InRange(self.keys, left_index) THEN "merge: keys remove" ELSE NoPanic
      separator == At(self.keys, left_index)
      p == [self EXCEPT !.children = RemoveAt(@, node_index),
                        !.keys = RemoveAt(@, left_index)]
      l == IF is_leaf(left_node)
             THEN [left_node EXCEPT !.keys = @ \o target_node.keys,
                                    !.values = @ \o target_node.values]
             ELSE [left_node EXCEPT !.keys = Push(@, separator) \o target_node.keys,
                                    !.children = @ \o target_node.children]
      Deleted(w, dp) ==
        IF ~dp.ok THEN [c |-> Abort(dp.c, "merge: delete_page unwrap"), node |-> self,
                        target |-> target_node]
        ELSE [c |-> dp.c, node |-> Touch(p), target |-> w.node]
      Written(w) ==
        IF ~w.ok THEN [c |-> Abort(w.c, "merge: write_page unwrap"), node |-> self,
                       target |-> target_node]
        ELSE Deleted(w, delete_page(w.c, target_node.id))
  IN IF why # NoPanic THEN [c |-> Abort(c, why), node |-> self, target |-> target_node]
     ELSE Written(write_page(c, Touch(l)))

\* merge the right sibling into the target
MergeRight(c, self, target_node, right_node, node_index) ==
  LET why == IF ~InRange(self.keys, node_index) THEN "merge: keys remove" ELSE NoPanic
      separator == At(self.keys, node_index)
      p == [self EXCEPT !.children = RemoveAt(@, node_index + 1),
                        !.keys = RemoveAt(@, node_index)]
      t == IF is_leaf(target_node)
             THEN [target_node EXCEPT !.keys = @ \o right_node.keys,
                                      !.values = @ \o right_node.values]
             ELSE [target_node EXCEPT !.keys = Push(@, separator) \o right_node.keys,
                                      !.children = @ \o right_node.children]
      Deleted(w, dp) ==
        IF ~dp.ok THEN [c |-> Abort(dp.c, "merge: delete_page unwrap"), node |-> self,
                        target |-> target_node]
        ELSE [c |-> dp.c, node |-> Touch(p), target |-> w.node]
      Written(w) ==
        IF ~w.ok THEN [c |-> Abort(w.c, "merge: write_page unwrap"), node |-> self,
                       target |-> target_node]
        ELSE Deleted(w, delete_page(w.c, right_node.id))
  IN IF why # NoPanic THEN [c |-> Abort(c, why), node |-> self, target |-> target_node]
     ELSE Written(write_page(c, Touch(t)))

\* a variant of the repair that never looks at the right sibling
RepairLeftOnly(c, self, target_node, node_index) ==
  LET d == Degree(c)
      has_left == node_index > 0
      Choose(lr) ==
        IF has_left /\ can_lend_keys(lr, d)
          THEN BorrowLeft(c, self, target_node, lr, node_index)
        ELSE IF has_left
          THEN MergeLeft(Note(c, "merged"), self, target_node, lr, node_index)
        ELSE [c |-> Note(c, "repair without a sibling"), node |-> self,
              target |-> target_node]
      LeftRead(lr) ==
        IF ~lr.ok THEN [c |-> Abort(c, "delete: read_page unwrap"), node |-> self,
                        target |-> target_node]
        ELSE Choose(lr.node)
  IN LeftRead(IF has_left THEN read_page(c, At(self.children, node_index - 1))
              ELSE [ok |-> TRUE, panic |-> FALSE, node |-> NewNode(0)])

\* the choice among the four repairs: left lends, else right lends, else
\* merge with the left, else merge with the right, else nothing
Repair(c, self, target_node, node_index) ==
  LET d == Degree(c)
      has_left == node_index > 0
      has_right == node_index + 1 < Len(self.children)
      ReadFailed == [c |-> Abort(c, "delete: read_page unwrap"), node |-> self,
                      target |-> target_node]
      \* lr, rr: the neighbours read, NewNode(0) standing for a missing one
      Choose(lr, rr) ==
        IF has_left /\ can_lend_keys(lr, d)
          THEN BorrowLeft(c, self, target_node, lr, node_index)
        ELSE IF has_right /\ can_lend_keys(rr, d)
          THEN BorrowRight(c, self, target_node, rr, node_index)
        ELSE IF has_left
          THEN MergeLeft(Note(c, "merged"), self, target_node, lr, node_index)
        ELSE IF has_right
          THEN MergeRight(Note(c, "merged"), self, target_node, rr, node_index)
        ELSE [c |-> Note(c, "repair without a sibling"), node |-> self,
              target |-> target_node]
      RightRead(lr, rr) ==
        IF ~rr.ok THEN ReadFailed ELSE Choose(lr, rr.node)
      LeftRead(lr) ==
        IF ~lr.ok THEN ReadFailed
        ELSE RightRead(lr.node,
                       IF has_right THEN read_page(c, At(self.children, node_index + 1))
                       ELSE [ok |-> TRUE, panic |-> FALSE, node |-> NewNode(0)])
  IN LeftRead(IF has_left THEN read_page(c, At(self.children, node_index - 1))
              ELSE [ok |-> TRUE, panic |-> FALSE, node |-> NewNode(0)])

\* the leaf case of NodePage::delete: [panic, node, res]
LeafDelete(self, key) ==
  LET pos == {i \in 0 .. Len(self.keys) - 1 : At(self.keys, i) = key} IN
  IF pos = {} THEN [panic |-> NoPanic, node |-> self, res |-> None]
  ELSE IF ~InRange(self.values, SetMin(pos))
    THEN [panic |-> "delete: values remove", node |-> self, res |-> None]
  ELSE [panic |-> NoPanic,
        node |-> Touch([self EXCEPT !.keys = RemoveAt(@, SetMin(pos)),
                                    !.values = RemoveAt(@, SetMin(pos))]),
        res |-> At(self.values, SetMin(pos))]

\* NodePage::delete: [c, node, res]
RECURSIVE NodeDelete(_, _, _, _)
NodeDelete(c, self, key, fuel) ==
  LET node_index == DescentIndex(self, key)
      InLeaf(l) ==
        [c |-> IF l.panic = NoPanic THEN c ELSE Abort(c, l.panic),
         node |-> l.node, res |-> l.res]
      Written(rp, rec, w) ==
        IF ~w.ok
          THEN [c |-> Abort(w.c, "delete: write_page unwrap"), node |-> rp.node, res |-> None]
        ELSE [c |-> w.c, node |-> rp.node, res |-> rec.res]
      Deleted(rp, rec) ==
        IF Panicked(rec.c) THEN [c |-> rec.c, node |-> rp.node, res |-> None]
        ELSE Written(rp, rec, write_page(rec.c, rec.node))
      \* rp is [c, node, target] after the repair
      Repaired(rp) ==
        IF Panicked(rp.c) THEN [c |-> rp.c, node |-> rp.node, res |-> None]
        ELSE Deleted(rp, NodeDelete(rp.c, rp.target, key, fuel - 1))
      Read(r0) ==
        IF ~r0.ok
          THEN [c |-> Abort(c, "delete: read_page unwrap"), node |-> self, res |-> None]
        ELSE Repaired(IF is_less_than_minimal(r0.node, Degree(c))
                        THEN Repair(c, self, r0.node, node_index)
                        ELSE [c |-> c, node |-> self, target |-> r0.node])
  IN IF fuel = 0 THEN [c |-> Abort(c, "stack overflow"), node |-> self, res |-> None]
     ELSE IF is_leaf(self) THEN InLeaf(LeafDelete(self, key))
     ELSE IF ~InRange(self.children, node_index)
       THEN [c |-> Abort(c, "delete: children index"), node |-> self, res |-> None]
     ELSE Read(read_page(c, At(self.children, node_index)))

\* ------------------------------------------------------------ BTreeStore
\* BTreeStore::save_metadata
save_metadata(c) ==
  IF c.meta.changed THEN [c EXCEPT !.header = meta_data_to_bytes(c.meta)] ELSE c

\* a variant of BTreeStore::root that allocates a root whether or not one is
\* recorded
RootAllocatesAnew(c) ==
  LET Allocated(a) ==
        IF ~a.ok THEN [ok |-> FALSE, c |-> a.c, node |-> a.node]
        ELSE [ok |-> TRUE,
              c |-> save_metadata([a.c EXCEPT !.meta.root = a.node.id]),
              node |-> a.node]
  IN Allocated(allocate_new_page(c))

\* BTreeStore::root: [ok, c, node]
root(c) ==
  LET Read(r) ==
        [ok |-> r.ok,
         c |-> IF r.panic THEN Abort(c, "read_page: invalid id") ELSE c,
         node |-> r.node]
      Allocated(a) ==
        IF ~a.ok THEN [ok |-> FALSE, c |-> a.c, node |-> a.node]
        ELSE [ok |-> TRUE,
              c |-> save_metadata([a.c EXCEPT !.meta.root = a.node.id]),
              node |-> a.node]
  IN IF c.meta.root # U32_MAX THEN Read(read_page(c, c.meta.root))
     ELSE Allocated(allocate_new_page(c))

\* BTreeStore::find: [c, outcome, res]
StoreFind(c, key) ==
  LET Found(rt, f) ==
        IF f.panic # NoPanic
          THEN [c |-> Abort(rt.c, f.panic), outcome |-> "panic", res |-> None]
        ELSE [c |-> rt.c, outcome |-> "ok", res |-> f.res]
      Rooted(rt) ==
        IF Panicked(rt.c) THEN [c |-> rt.c, outcome |-> "panic", res |-> None]
        ELSE IF ~rt.ok THEN [c |-> rt.c, outcome |-> "err", res |-> None]
        ELSE Found(rt, NodeFind(rt.c, rt.node, key, MaxDepth))
  IN Rooted(root(c))

\* a variant of the split of a full root that leaves root_page_id as it was
GrowRootKeepsMeta(c, old_root) ==
  LET Allocated(s, a) ==
        IF ~a.ok THEN [ok |-> FALSE, c |-> a.c, node |-> old_root]
        ELSE [ok |-> TRUE, c |-> a.c,
              node |-> Touch([a.node EXCEPT
                                !.keys = Push(@, s.key),
                                !.children = Push(Push(@, s.left.id), s.right.id)])]
      Halved(s) ==
        IF Panicked(s.c) THEN [ok |-> FALSE, c |-> s.c, node |-> old_root]
        ELSE Allocated(s, allocate_new_page(s.c))
  IN Halved(split(c, old_root))

\* the split of a full root in BTreeStore::insert: [ok, c, node], node being
\* the new root
GrowRoot(c, old_root) ==
  LET Allocated(s, a) ==
        IF ~a.ok THEN [ok |-> FALSE, c |-> a.c, node |-> old_root]
        ELSE [ok |-> TRUE, c |-> [a.c EXCEPT !.meta.root = a.node.id],
              node |-> Touch([a.node EXCEPT
                                !.keys = Push(@, s.key),
                                !.children = Push(Push(@, s.left.id), s.right.id)])]
      Halved(s) ==
        IF Panicked(s.c) THEN [ok |-> FALSE, c |-> s.c, node |-> old_root]
        ELSE Allocated(s, allocate_new_page(s.c))
  IN Halved(split(c, old_root))

\* BTreeStore::insert: [c, outcome]
StoreInsert(c, key, value) ==
  LET Written(w) ==
        IF Panicked(w.c) THEN [c |-> w.c, outcome |-> "panic"]
        ELSE IF ~w.ok THEN [c |-> w.c, outcome |-> "err"]
        ELSE [c |-> save_metadata(w.c), outcome |-> "ok"]
      Inserted(ins) ==
        IF Panicked(ins.c) THEN [c |-> ins.c, outcome |-> "panic"]
        ELSE Written(write_page(ins.c, ins.node))
      Grown(g) ==
        IF Panicked(g.c) THEN [c |-> g.c, outcome |-> "panic"]
        ELSE IF ~g.ok THEN [c |-> g.c, outcome |-> "err"]
        ELSE Inserted(NodeInsert(g.c, g.node, key, value, MaxDepth))
      Rooted(rt) ==
        IF Panicked(rt.c) THEN [c |-> rt.c, outcome |-> "panic"]
        ELSE IF ~rt.ok THEN [c |-> rt.c, outcome |-> "err"]
        ELSE Grown(IF is_full(rt.node, Degree(rt.c)) THEN GrowRoot(rt.c, rt.node)
                   ELSE [ok |-> TRUE, c |-> rt.c, node |-> rt.node])
  IN Rooted(root(c))

\* the root left without keys by a merge: its first child becomes the root
\* [ok, c, node]; debug is the build profile (debug_assert_eq!)
CollapseRoot(c, old_root, debug) ==
  LET new_root == At(old_root.children, 0)
      Read(c1, r) ==
        IF r.panic
          THEN [ok |-> FALSE, c |-> Abort(c1, "read_page: invalid id"), node |-> old_root]
        ELSE IF ~r.ok THEN [ok |-> FALSE, c |-> c1, node |-> old_root]
        ELSE [ok |-> TRUE, c |-> [c1 EXCEPT !.meta.root = new_root], node |-> r.node]
      Seen(c1) == IF debug /\ Len(old_root.children) # 1
                    THEN [ok |-> FALSE,
                          c |-> Abort(c1, "delete: debug_assert children.len() == 1"),
                          node |-> old_root]
                  ELSE Read(c1, read_page(c1, new_root))
  IN Seen(Note(c, IF Len(old_root.children) = 1 THEN "root with one child collapsed"
                  ELSE "root with several children collapsed"))

\* BTreeStore::delete: [c, outcome, res]
StoreDelete(c, key, debug) ==
  LET Written(del, w) ==
        IF Panicked(w.c) THEN [c |-> w.c, outcome |-> "panic", res |-> None]
        ELSE IF ~w.ok THEN [c |-> w.c, outcome |-> "err", res |-> None]
        ELSE [c |-> save_metadata(w.c), outcome |-> "ok", res |-> del.res]
      Collapsed(del, g) ==
        IF Panicked(g.c) THEN [c |-> g.c, outcome |-> "panic", res |-> None]
        ELSE IF ~g.ok THEN [c |-> g.c, outcome |-> "err", res |-> None]
        ELSE Written(del, write_page(g.c, g.node))
      Deleted(del) ==
        IF Panicked(del.c) THEN [c |-> del.c, outcome |-> "panic", res |-> None]
        ELSE Collapsed(del, IF Len(del.node.keys) = 0 /\ ~is_leaf(del.node)
                              THEN CollapseRoot(del.c, del.node, debug)
                              ELSE [ok |-> TRUE, c |-> del.c, node |-> del.node])
      Rooted(rt) ==
        IF Panicked(rt.c) THEN [c |-> rt.c, outcome |-> "panic", res |-> None]
        ELSE IF ~rt.ok THEN [c |-> rt.c, outcome |-> "err", res |-> None]
        ELSE Deleted(NodeDelete(rt.c, rt.node, key, MaxDepth))
  IN Rooted(root(c))

\* the StoreMetaData of BTreeStore::new on a file without a header
FreshMeta(max_degree) ==
  [max_degree |-> max_degree, number_of_pages |-> 0,
   first_deleted_page |-> U32_MAX, root |-> U32_MAX, changed |-> FALSE]

\* The header region of the file is either the record of meta_data_to_bytes
\* (14 bytes or more are present) or [len |-> n]: n bytes are present, n less
\* than 14, or no file exists at the path, n = None.
MIN_DEGREE == 4
META_DATA_HEADER_SIZE == 14
ShortFile(n) == [len |-> n]
file_size(h) == IF "len" \in DOMAIN h THEN h.len ELSE META_DATA_HEADER_SIZE

\* the StoreMetaData read from the 14 header bytes of an existing file
StoredMeta(h) ==
  [max_degree |-> h.max_degree, number_of_pages |-> h.number_of_pages,
   first_deleted_page |-> h.first_deleted_page, root |-> h.root, changed |-> FALSE]

\* a variant of BTreeStore::new that takes the caller's degree for an existing
\* file too
BTreeStoreNewOwnDegree(h, max_degree) ==
  IF max_degree < MIN_DEGREE THEN [ok |-> FALSE, header |-> h, meta |-> FreshMeta(0)]
  ELSE IF file_size(h) = None THEN [ok |-> FALSE, header |-> h, meta |-> FreshMeta(0)]
  ELSE IF file_size(h) >= META_DATA_HEADER_SIZE
    THEN [ok |-> TRUE, header |-> h,
          meta |-> [StoredMeta(h) EXCEPT !.max_degree = max_degree]]
  ELSE [ok |-> TRUE, header |-> meta_data_to_bytes(FreshMeta(max_degree)),
        meta |-> FreshMeta(max_degree)]

\* a variant of BTreeStore::new without the check of the degree
BTreeStoreNewUnchecked(h, max_degree) ==
  IF file_size(h) = None THEN [ok |-> FALSE, header |-> h, meta |-> FreshMeta(0)]
  ELSE IF file_size(h) >= META_DATA_HEADER_SIZE
    THEN [ok |-> TRUE, header |-> h, meta |-> StoredMeta(h)]
  ELSE [ok |-> TRUE, header |-> meta_data_to_bytes(FreshMeta(max_degree)),
        meta |-> FreshMeta(max_degree)]

\* BTreeStore::new(file_path, max_degree) on a file with the header region h:
\* [ok, header, meta]; on Err nothing is written and no store exists
BTreeStoreNew(h, max_degree) ==
  IF max_degree < MIN_DEGREE THEN [ok |-> FALSE, header |-> h, meta |-> FreshMeta(0)]
  ELSE IF file_size(h) = None THEN [ok |-> FALSE, header |-> h, meta |-> FreshMeta(0)]
  ELSE IF file_size(h) >= META_DATA_HEADER_SIZE
    THEN [ok |-> TRUE, header |-> h, meta |-> StoredMeta(h)]
  ELSE [ok |-> TRUE, header |-> meta_data_to_bytes(FreshMeta(max_degree)),
        meta |-> FreshMeta(max_degree)]

\* ------------------------------------------------------------ state
VARIABLES
  file,      \* the page slots of the file after the header
  header,    \* the 14 header bytes of the file
  meta,      \* the StoreMetaData shared by the store and its pager
  status,    \* "open", or "panicked" once an operation has panicked
  ref,       \* the reference map: what a map with insert-if-absent holds
  hist,      \* the last two insert / delete calls, the latest last
  load,      \* <<s, n>>: the first n inserts of load order s were made
  nops       \* number of insert / delete calls after the load

vars == <<file, header, meta, status, ref, hist, load, nops>>

Ctx ==
  [file |-> file, header |-> header, meta |-> meta, panic |-> NoPanic,
   overfull |-> FALSE, splices |-> {}, leaf |-> {}, mem |-> <<>>, notes |-> {}]

\* what find(key) returns in the context c; Failed if it does not return Ok
Failed == 0 - 2
FindResult(c, key) ==
  LET Found(f) == IF f.outcome = "ok" THEN f.res ELSE Failed
  IN Found(StoreFind(c, key))

FindAll(c) == [k \in Keys |-> FindResult(c, k)]

\* whether the call that led from the context c to d changed a page of the
\* file or the head of the free-list
Rewrote(c, d) ==
  d.file # c.file \/ d.meta.first_deleted_page # c.meta.first_deleted_page

\* whether the descent for key from the node of page id reads a child that
\* holds fewer than min_keys keys
RECURSIVE UnderflowBelow(_, _, _, _)
UnderflowBelow(c, id, key, fuel) ==
  IF fuel = 0 \/ id + 1 > Len(c.file) THEN FALSE
  ELSE LET n == DecodePage(c.file[id + 1], Degree(c))
           i == DescentIndex(n, key)
           ch == At(n.children, i)
       IN IF is_leaf(n) \/ ~InRange(n.children, i) \/ ch + 1 > Len(c.file) THEN FALSE
          ELSE \/ Len(DecodePage(c.file[ch + 1], Degree(c)).keys) < min_keys(Degree(c))
               \/ UnderflowBelow(c, ch, key, fuel - 1)

PassesUnderflow(c, key) ==
  c.meta.root # U32_MAX /\ UnderflowBelow(c, c.meta.root, key, MaxDepth)

Record(call) == IF Len(hist) = 0 THEN <<call>> ELSE <<Last(hist), call>>

Commit(c, outcome) ==
  /\ file' = c.file
  /\ header' = c.header
  /\ meta' = c.meta
  /\ status' = IF outcome = "panic" THEN "panicked" ELSE "open"

\* The calls of one behaviour: a caller may first run one of the load orders,
\* or a part of it from its start, and then makes up to MaxOps calls of
\* insert and delete with any key and value.  A load order lists the keys to
\* insert, each with value 1; a key below zero stands for the delete of the
\* key above zero.
LoadOrders ==
  << <<4, 5, 6, 1, 2, 3, 0 - 1, 0 - 1, 0 - 3, 0 - 2, 0 - 1, 0 - 4>>,
                                   \* fills the first leaf below a root, splits
                                   \* it and empties the halves again
     <<1, 2, 3, 4, 5, 6, 7>>,      \* ascending, grows the tree to height 3
     <<1, 2, 3, 4, 3>>,            \* ends with a key that is already stored
     <<3, 4, 8, 9, 10, 1, 2, 6, 7, 5>>,    \* three leaves, the first two full
     <<1, 2, 7, 8, 9, 10, 11, 3, 4, 5, 6, 1>> >>  \* height 3, the first internal child full

Loading(key, value) ==
  /\ nops = 0
  /\ value = 1
  /\ \E s \in 1 .. Len(LoadOrders) :
       /\ load[2] = 0 \/ load[1] = s
       /\ load[2] < Len(LoadOrders[s])
       /\ LoadOrders[s][load[2] + 1] = key
       /\ load' = <<s, load[2] + 1>>
       /\ nops' = nops

Calling ==
  /\ nops < MaxOps
  /\ nops' = nops + 1
  /\ load' = load

Init ==
  /\ file = <<>>
  /\ header = meta_data_to_bytes(FreshMeta(MaxDegree))
  /\ meta = FreshMeta(MaxDegree)
  /\ status = "open"
  /\ ref = [k \in Keys |-> None]
  /\ hist = <<>>
  /\ load = <<0, 0>>
  /\ nops = 0

\* the pages whose content on disk is not the in-memory content of the node
\* that write_page last wrote there during the operation
LostUpdates(c) ==
  {id \in DOMAIN c.mem :
     \/ id + 1 > Len(c.file)
     \/ DecodePage(c.file[id + 1], Degree(c)) # c.mem[id]}

Insert(key, value) ==
  /\ status = "open"
  /\ Loading(key, value) \/ Calling
  /\ \E r \in {StoreInsert(Ctx, key, value)} :
     /\ Commit(r.c, r.outcome)
     /\ ref' = IF r.outcome = "ok" /\ ref[key] = None
                 THEN [ref EXCEPT ![key] = value] ELSE ref
     /\ hist' = Record([op |-> "insert", key |-> key, value |-> value,
                        outcome |-> r.outcome, res |-> None, before |-> FindAll(Ctx),
                        rewrote |-> Rewrote(Ctx, r.c),
                        fresh |-> meta.root = U32_MAX,
                        overfull |-> r.c.overfull,
                        panic |-> r.c.panic, splices |-> r.c.splices,
                        leaf |-> r.c.leaf,
                        lost |-> LostUpdates(r.c),
                        notes |-> r.c.notes,
                        underflow |-> PassesUnderflow(Ctx, key)])

Delete(key) ==
  /\ status = "open"
  /\ Loading(0 - key, 1) \/ Calling
  /\ \E debug \in BOOLEAN :
       \E r \in {StoreDelete(Ctx, key, debug)} :
       /\ Commit(r.c, r.outcome)
       /\ ref' = IF r.outcome = "ok" THEN [ref EXCEPT ![key] = None] ELSE ref
       /\ hist' = Record([op |-> "delete", key |-> key, value |-> None,
                          outcome |-> r.outcome, res |-> r.res, before |-> FindAll(Ctx),
                          rewrote |-> Rewrote(Ctx, r.c),
                          fresh |-> meta.root = U32_MAX,
                          overfull |-> r.c.overfull,
                          panic |-> r.c.panic, splices |-> r.c.splices,
                          leaf |-> r.c.leaf,
                          lost |-> LostUpdates(r.c),
                          notes |-> r.c.notes,
                          underflow |-> PassesUnderflow(Ctx, key)])

Find(key) ==
  /\ status = "open"
  /\ \E r \in {StoreFind(Ctx, key)} : Commit(r.c, r.outcome)
  /\ UNCHANGED <<ref, hist, load, nops>>

Next ==
  \/ \E key \in Keys, value \in Values : Insert(key, value)
  \/ \E key \in Keys : Delete(key)
  \/ \E key \in Keys : Find(key)

Spec == Init /\ [][Next]_vars

\* inserts and finds only
NextInsertOnly ==
  \/ \E key \in Keys, value \in Values : Insert(key, value)
  \/ \E key \in Keys : Find(key)

SpecInsertOnly == Init /\ [][NextInsertOnly]_vars

\* ------------------------------------------------------------ sessions
\* A file is opened, used and closed any number of times. The degrees passed
\* to BTreeStore::new: two below the minimum and those from the minimum on.
DegreeArgs == {0, MIN_DEGREE - 1} \cup (MIN_DEGREE .. MaxDegree + 1)

InitClosed ==
  /\ file = <<>>
  /\ header \in {ShortFile(None), ShortFile(0), ShortFile(META_DATA_HEADER_SIZE - 1)}
  /\ meta = FreshMeta(0)
  /\ status = "closed"
  /\ ref = [k \in Keys |-> None]
  /\ hist = <<>>
  /\ load = <<0, 0>>
  /\ nops = 0

\* BTreeStore::new; the call is recorded with its argument, the file it met,
\* the header region it left and the StoreMetaData the new store starts with
Open(max_degree) ==
  /\ status = "closed"
  /\ \E o \in {BTreeStoreNew(header, max_degree)} :
       /\ header' = o.header
       /\ meta' = o.meta
       /\ status' = IF o.ok THEN "open" ELSE "closed"
       /\ hist' = Record([op |-> "open", key |-> max_degree, value |-> None,
                          outcome |-> IF o.ok THEN "ok" ELSE "err", res |-> None,
                          before |-> <<>>, rewrote |-> FALSE, fresh |-> FALSE,
                          overfull |-> FALSE, underflow |-> FALSE,
                          disk |-> [file |-> file, header |-> header],
                          meta |-> o.meta, header |-> o.header])
  /\ UNCHANGED <<file, ref, load, nops>>

\* the store is dropped: the file stays, the StoreMetaData is gone; a drop
\* counts as one of the MaxOps calls
Close ==
  /\ status = "open"
  /\ Calling
  /\ status' = "closed"
  /\ meta' = FreshMeta(0)
  /\ UNCHANGED <<file, header, ref, hist>>

NextSessions ==
  \/ \E max_degree \in DegreeArgs : Open(max_degree)
  \/ Close
  \/ \E key \in Keys, value \in Values : Insert(key, value)
  \/ \E key \in Keys : Delete(key)
  \/ \E key \in Keys : Find(key)

SpecSessions == InitClosed /\ [][NextSessions]_vars

\* ------------------------------------------------------------ layout
\* A store of any degree a u16 can hold from the minimum on is asked once for
\* its page size or for the offsets of the three arrays of a page.
InitLayout ==
  /\ file = <<>>
  /\ \E d \in MIN_DEGREE .. U16_MAX :
       /\ header = meta_data_to_bytes(FreshMeta(d))
       /\ meta = FreshMeta(d)
  /\ status = "open"
  /\ ref = [k \in Keys |-> None]
  /\ hist = <<>>
  /\ load = <<0, 0>>
  /\ nops = 0

LayoutCall(op, panic, res) ==
  /\ status = "open"
  /\ hist = <<>>
  /\ hist' = <<[op |-> op, key |-> meta.max_degree, value |-> None,
                outcome |-> IF panic THEN "panic" ELSE "ok", res |-> res]>>
  /\ status' = IF panic THEN "panicked" ELSE "open"
  /\ UNCHANGED <<file, header, meta, ref, load, nops>>

\* BTreeStore::page_size
PageSize ==
  \E debug \in BOOLEAN :
    \E r \in {page_size(meta.max_degree, debug)} :
      LayoutCall("page_size", r.panic, r.value)

\* key_offset, children_offset and values_offset, as write_page and the
\* decoding of a page call them
Offsets ==
  \E debug \in BOOLEAN :
    \E r \in {values_offset_bytes(meta.max_degree, debug)} :
      LayoutCall("offsets", r.panic,
                 <<key_offset_bytes, children_offset_bytes(meta.max_degree, debug).value,
                   r.value>>)

NextLayout == PageSize \/ Offsets

SpecLayout == InitLayout /\ [][NextLayout]_vars

\* ------------------------------------------------------------ pager
\* The pager of a new store called on its own, as the tests do: pages are
\* allocated, the page just allocated is filled and written, pages are
\* deleted by id. The last four calls are recorded.
Record4(call) ==
  IF Len(hist) < 4 THEN Append(hist, call)
  ELSE Append(SubSeq(hist, 2, 4), call)

PagerOutcome(r) ==
  IF Panicked(r.c) THEN "panic" ELSE IF r.ok THEN "ok" ELSE "err"

PagerCall(op, arg, r, node) ==
  /\ Commit(r.c, PagerOutcome(r))
  /\ hist' = Record4([op |-> op, key |-> arg, outcome |-> PagerOutcome(r),
                      node |-> node,
                      head_before |-> meta.first_deleted_page,
                      pages_before |-> meta.number_of_pages,
                      pages_after |-> r.c.meta.number_of_pages])
  /\ UNCHANGED <<ref, load, nops>>

\* NodePager::allocate_new_page
PagerAllocate ==
  /\ status = "open"
  /\ meta.number_of_pages < MaxPages \/ meta.first_deleted_page # U32_MAX
  /\ \E r \in {allocate_new_page(Ctx)} : PagerCall("allocate", None, r, r.node)

\* keys_mut().push / values_mut().push on the page just allocated, then
\* NodePager::write_page
PagerWrite(key) ==
  /\ status = "open"
  /\ Len(hist) > 0
  /\ Last(hist).op = "allocate"
  /\ Last(hist).outcome = "ok"
  /\ \E r \in {write_page(Ctx, Touch([Last(hist).node EXCEPT
                                         !.keys = <<key>>, !.values = <<key>>]))} :
       PagerCall("write", Last(hist).node.id, r, r.node)

\* NodePager::delete_page
PagerDelete(page_id) ==
  /\ status = "open"
  /\ \E r \in {delete_page(Ctx, page_id)} :
       PagerCall("delete", page_id, r, NewNode(page_id))

NextPager ==
  \/ PagerAllocate
  \/ \E key \in 1 .. MaxVal : PagerWrite(key)
  \/ \E page_id \in 0 .. MaxPages : PagerDelete(page_id)

SpecPager == Init /\ [][NextPager]_vars

\* ------------------------------------------------------------ the tree on disk
PageIds(c) == 0 .. Len(c.file) - 1
NodeAt(c, id) == DecodePage(c.file[id + 1], Degree(c))
ChildIds(c, id) == {At(NodeAt(c, id).children, i) : i \in 0 .. Len(NodeAt(c, id).children) - 1}

\* the pages reachable from the root through the child references on disk
RECURSIVE ReachFrom(_, _, _)
ReachFrom(c, seen, frontier) ==
  IF frontier = {} THEN seen
  ELSE LET next == UNION {ChildIds(c, id) : id \in frontier} \cap PageIds(c)
       IN ReachFrom(c, seen \cup frontier, next \ (seen \cup frontier))

Reachable(c) ==
  IF c.meta.root = U32_MAX \/ c.meta.root \notin PageIds(c) THEN {}
  ELSE ReachFrom(c, {}, {c.meta.root})

Returned == status = "open" /\ Len(hist) > 0 /\ Last(hist).outcome = "ok"

LastCall == Last(hist)
PrevCall == hist[1]
LeafIds(c) == {id \in Reachable(c) : is_leaf(NodeAt(c, id))}
InnerIds(c) == {id \in Reachable(c) : ~is_leaf(NodeAt(c, id))}
KeysOf(c, id) == {At(NodeAt(c, id).keys, i) : i \in 0 .. Len(NodeAt(c, id).keys) - 1}
SubtreeKeys(c, id) ==
  IF id \notin PageIds(c) THEN {}
  ELSE UNION {KeysOf(c, p) : p \in ReachFrom(c, {}, {id})}
StrictlyAscending(s) == \A i \in 1 .. Len(s) - 1 : s[i] < s[i + 1]

\* ------------------------------------------------------------ claims
\* C1: after any sequence of insert and delete calls that returned, find(k)
\* is Some(v) exactly when the reference map holds (k, v), else None.
C1_RefinesMap == Returned => \A k \in Keys : FindResult(Ctx, k) = ref[k]

\* C2: after any sequence of insert calls (no delete), find(k) is the value
\* of the first insert of k, and None for a key never inserted.
C2_FirstInsertWins == Returned => FindAll(Ctx) = ref

\* C3: with k absent, insert(k, v) followed by delete(k) returns Some(v) from
\* the delete, and find(k) is None afterwards.
C3_InsertThenDelete ==
  (/\ Returned /\ Len(hist) = 2
   /\ PrevCall.op = "insert" /\ PrevCall.outcome = "ok"
   /\ PrevCall.before[PrevCall.key] = None
   /\ LastCall.op = "delete" /\ LastCall.key = PrevCall.key)
  => (LastCall.res = PrevCall.value /\ FindResult(Ctx, LastCall.key) = None)

\* C4: delete(k) returns what find(k) returned immediately before it.
C4_DeleteReturnsFound ==
  (Returned /\ LastCall.op = "delete") => LastCall.res = LastCall.before[LastCall.key]

\* C5: insert(k, v) of a key that find does not report, followed immediately
\* by insert(k, v'), leaves find(k) = Some(v), and the second insert changes
\* the find result of no other key.
C5_SecondInsertIgnored ==
  (/\ Returned /\ Len(hist) = 2
   /\ PrevCall.op = "insert" /\ PrevCall.outcome = "ok"
   /\ PrevCall.before[PrevCall.key] = None
   /\ LastCall.op = "insert" /\ LastCall.key = PrevCall.key)
  => /\ FindResult(Ctx, LastCall.key) = PrevCall.value
     /\ \A k \in Keys \ {LastCall.key} : FindResult(Ctx, k) = LastCall.before[k]

\* C6: every key is in at most one slot of at most one leaf reachable from
\* the root.
C6_NoDuplicateKeys ==
  Returned =>
    \A p, q \in LeafIds(Ctx) :
      \A i \in 1 .. Len(NodeAt(Ctx, p).keys), j \in 1 .. Len(NodeAt(Ctx, q).keys) :
        NodeAt(Ctx, p).keys[i] = NodeAt(Ctx, q).keys[j] => (p = q /\ i = j)

\* C8: every node reachable from the root is a leaf without children and
\* with one value per key, or an internal node without values and with one
\* child more than keys.
LegalShape(n) ==
  \/ Len(n.children) = 0 /\ Len(n.values) = Len(n.keys)
  \/ Len(n.children) > 0 /\ Len(n.values) = 0 /\ Len(n.children) = Len(n.keys) + 1
C8_NodeShapes == Returned => \A id \in Reachable(Ctx) : LegalShape(NodeAt(Ctx, id))

\* C9: in every internal node reachable from the root, the keys below child
\* i are below the separator after it and not below the separator before it.
SeparatesChildren(c, id) ==
  LET n == NodeAt(c, id) IN
  \A i \in 0 .. Len(n.children) - 1 :
    \A k \in SubtreeKeys(c, At(n.children, i)) :
      /\ i < Len(n.keys) => k < At(n.keys, i)
      /\ (i > 0 /\ i - 1 < Len(n.keys)) => k >= At(n.keys, i - 1)
C9_SearchTreeOrder == Returned => \A id \in InnerIds(Ctx) : SeparatesChildren(Ctx, id)

\* C10: the keys of every node reachable from the root are strictly
\* ascending.
C10_KeysAscending ==
  Returned => \A id \in Reachable(Ctx) : StrictlyAscending(NodeAt(Ctx, id).keys)

\* C7: delete(k) on an absent key returns None and leaves every page of the
\* file and the free-list as they were.
C7_AbsentDeleteRewritesNothing ==
  (Returned /\ LastCall.op = "delete" /\ LastCall.before[LastCall.key] = None)
  => (LastCall.res = None /\ ~LastCall.rewrote)

\* C7 as amended: a delete(k) that returns None leaves every page of the
\* file and the free-list as they were, unless it is the first access to
\* the root of a store that has none yet (the root page is allocated) or its
\* descent passes a child below min_keys (the child is repaired by a borrow
\* or a merge before the key is looked up).
C7_NoneDeleteRewritesOnlyForRepair ==
  (/\ Returned /\ LastCall.op = "delete" /\ LastCall.res = None
   /\ ~LastCall.fresh /\ ~LastCall.underflow)
  => ~LastCall.rewrote

\* a delete of an absent key below an internal root that repaired nothing
C7_Witness ==
  /\ Returned /\ LastCall.op = "delete" /\ LastCall.res = None
  /\ LastCall.before[LastCall.key] = None
  /\ ~LastCall.fresh /\ ~LastCall.underflow /\ ~LastCall.rewrote
  /\ InnerIds(Ctx) # {}

\* C11: every node reachable from the root other than the root holds at
\* least min_keys keys.
C11_MinKeys ==
  Returned =>
    \A id \in Reachable(Ctx) \ {meta.root} :
      Len(NodeAt(Ctx, id).keys) >= min_keys(Degree(Ctx))

\* C12: every node reachable from the root holds at most max_keys keys and
\* at most D children, and no page was built from a node with more.
C12_MaxKeys ==
  Returned =>
    /\ \A id \in Reachable(Ctx) : ~Overfull(NodeAt(Ctx, id), Degree(Ctx))
    /\ ~LastCall.overfull

\* the depths at which a descent from page id, itself at depth depth, reaches a
\* leaf (a child outside the file is read as no page at all)
RECURSIVE LeafDepthsFrom(_, _, _, _)
LeafDepthsFrom(c, id, depth, fuel) ==
  IF id \notin PageIds(c) \/ fuel = 0 THEN {}
  ELSE IF is_leaf(NodeAt(c, id)) THEN {depth}
  ELSE UNION {LeafDepthsFrom(c, ch, depth + 1, fuel - 1) : ch \in ChildIds(c, id)}

LeafDepths(c) ==
  IF c.meta.root = U32_MAX THEN {} ELSE LeafDepthsFrom(c, c.meta.root, 0, MaxDepth)

RECURSIVE FreeListFrom(_, _, _)
FreeListFrom(c, id, seen) ==
  IF id = U32_MAX \/ id \notin PageIds(c) \/ id \in seen THEN {}
  ELSE {id} \cup FreeListFrom(c, NodeAt(c, id).next_deleted_page, seen \cup {id})

FreeList(c) == FreeListFrom(c, c.meta.first_deleted_page, {})

\* where the walk of the free-list stops: U32_MAX when it ends at the sentinel
RECURSIVE FreeListEnd(_, _, _)
FreeListEnd(c, id, seen) ==
  IF id = U32_MAX \/ id \notin PageIds(c) \/ id \in seen THEN id
  ELSE FreeListEnd(c, NodeAt(c, id).next_deleted_page, seen \cup {id})

\* C14: the free-list from first_deleted_page through the next_deleted_page
\* fields on disk ends at the sentinel without meeting a page twice, and every
\* page on it is stored with deleted = true.
C14_FreeListWellFormed ==
  Returned =>
    /\ FreeListEnd(Ctx, meta.first_deleted_page, {}) = U32_MAX
    /\ \A id \in FreeList(Ctx) : NodeAt(Ctx, id).deleted

\* C15: whenever no call is running and none has panicked, the meta data's
\* number_of_pages is the number of page slots present in the file.
C15_PageCountMatchesFile ==
  status = "open" => meta.number_of_pages = Len(file)

\* pages were appended and one of them was put on the free-list since
C15_Witness ==
  /\ Returned
  /\ LastCall.op = "delete"
  /\ meta.number_of_pages >= 4
  /\ meta.first_deleted_page # U32_MAX

\* what a store opened on the file as it is now would start with and find
SameAfterReopen(o) ==
  /\ o.ok
  /\ o.meta.max_degree = meta.max_degree
  /\ o.meta.number_of_pages = meta.number_of_pages
  /\ o.meta.first_deleted_page = meta.first_deleted_page
  /\ o.meta.root = meta.root
  /\ FindAll([Ctx EXCEPT !.meta = o.meta]) = FindAll(Ctx)

\* C16: when an insert or delete has returned Ok and none has failed before,
\* dropping the store and opening the file again gives a store with the
\* max_degree, number_of_pages, first_deleted_page and root of the meta data
\* in memory and with the same find result for every key.
C16_ReopenPreserves ==
  Returned =>
    \A d \in {x \in DegreeArgs : x >= MIN_DEGREE} :
      SameAfterReopen(BTreeStoreNew(header, d))

\* the root moved in a session that began by opening an existing tree
C16_Witness ==
  /\ Returned
  /\ PrevCall.op = "open"
  /\ file_size(PrevCall.disk.header) = META_DATA_HEADER_SIZE
  /\ PrevCall.meta.root # U32_MAX
  /\ meta.root # PrevCall.meta.root

OpenedExisting ==
  /\ Len(hist) > 0
  /\ LastCall.op = "open"
  /\ file_size(LastCall.disk.header) # None
  /\ file_size(LastCall.disk.header) >= META_DATA_HEADER_SIZE

UsesStored ==
  /\ LastCall.outcome = "ok"
  /\ LastCall.meta.max_degree = LastCall.disk.header.max_degree
  /\ LastCall.meta.number_of_pages = LastCall.disk.header.number_of_pages
  /\ LastCall.meta.first_deleted_page = LastCall.disk.header.first_deleted_page
  /\ LastCall.meta.root = LastCall.disk.header.root

\* C17 as stated: opening a file of at least 14 bytes succeeds for every
\* value of the degree argument and the store starts with the max_degree,
\* number_of_pages, first_deleted_page and root stored in the header.
C17_OpenExistingAnyDegree ==
  OpenedExisting => UsesStored

\* C17 amended: opening a file of at least 14 bytes with a degree argument of
\* at least 4 succeeds, whatever the argument, and the store starts with the
\* max_degree, number_of_pages, first_deleted_page and root stored in the
\* header.
C17_OpenExistingValidDegree ==
  OpenedExisting /\ LastCall.key >= MIN_DEGREE => UsesStored

\* a tree is opened with a degree that is not the stored one
C17_Witness ==
  /\ OpenedExisting
  /\ LastCall.key >= MIN_DEGREE
  /\ LastCall.key # LastCall.disk.header.max_degree
  /\ LastCall.disk.header.root # U32_MAX
  /\ status = "open"

OpenedShort ==
  /\ Len(hist) > 0
  /\ LastCall.op = "open"
  /\ \/ file_size(LastCall.disk.header) = None
     \/ file_size(LastCall.disk.header) < META_DATA_HEADER_SIZE

\* C18: open with a degree of at least 4 on a path whose file holds fewer
\* than 14 bytes, or where no file exists, succeeds and leaves a header with
\* that degree, no pages, an empty free-list and no root.
C18_OpenCreates ==
  OpenedShort /\ LastCall.key >= MIN_DEGREE =>
    /\ LastCall.outcome = "ok"
    /\ LastCall.header = [max_degree |-> LastCall.key, number_of_pages |-> 0,
                          first_deleted_page |-> U32_MAX, root |-> U32_MAX]

OpenedBelowMinimum ==
  Len(hist) > 0 /\ LastCall.op = "open" /\ LastCall.key < 4

OpenedEmptyWithFour ==
  /\ Len(hist) > 0
  /\ LastCall.op = "open"
  /\ LastCall.key = 4
  /\ file_size(LastCall.disk.header) = 0

\* C19: open with a degree below 4 returns an error and leaves the file as it
\* was; open with degree 4 on an empty file succeeds and the store's page
\* size is 49.
C19_DegreeValidation ==
  /\ OpenedBelowMinimum =>
       /\ LastCall.outcome = "err"
       /\ status = "closed"
       /\ file = LastCall.disk.file
       /\ header = LastCall.disk.header
  /\ OpenedEmptyWithFour =>
       /\ LastCall.outcome = "ok"
       /\ \A debug \in BOOLEAN :
            page_size(LastCall.meta.max_degree, debug) = [panic |-> FALSE, value |-> 49]

\* an empty file was opened with degree 4, and the file that open left met
\* an open with a degree below 4
C19_Witness ==
  /\ OpenedBelowMinimum
  /\ file_size(LastCall.disk.header) = META_DATA_HEADER_SIZE
  /\ PrevCall.op = "open"
  /\ PrevCall.key = 4
  /\ PrevCall.outcome = "ok"
  /\ file_size(PrevCall.disk.header) = 0

\* C20: for every degree from 4 to 65535 page_size returns
\* 9 + 4 * (D - 1) + 4 * D + 4 * (D - 1), the offsets of the keys, the
\* children and the values are 9, 9 + 4 * (D - 1) and 9 + 4 * (D - 1) + 4 * D,
\* and no computation overflows.
C20_LayoutExact ==
  /\ Len(hist) > 0 /\ LastCall.op = "page_size" =>
       /\ LastCall.outcome = "ok"
       /\ LastCall.res = 9 + 4 * (LastCall.key - 1) + 4 * LastCall.key
                            + 4 * (LastCall.key - 1)
  /\ Len(hist) > 0 /\ LastCall.op = "offsets" =>
       /\ LastCall.outcome = "ok"
       /\ LastCall.res = <<9, 9 + 4 * (LastCall.key - 1),
                           9 + 4 * (LastCall.key - 1) + 4 * LastCall.key>>

\* the page allocate_new_page returned is empty, live and off the free-list
FreshPage(n) ==
  /\ n.keys = <<>>
  /\ n.children = <<>>
  /\ n.values = <<>>
  /\ ~n.deleted
  /\ n.next_deleted_page = U32_MAX

\* C21: allocate_new_page with a free-list returns the page of the head,
\* empty and live, and leaves number_of_pages alone; without a free-list it
\* returns the page whose id is number_of_pages and adds one to it.
C21_RecycleBeforeGrow ==
  Len(hist) > 0 /\ LastCall.op = "allocate" =>
    /\ LastCall.outcome = "ok"
    /\ FreshPage(LastCall.node)
    /\ IF LastCall.head_before # U32_MAX
         THEN /\ LastCall.node.id = LastCall.head_before
              /\ LastCall.pages_after = LastCall.pages_before
         ELSE /\ LastCall.node.id = LastCall.pages_before
              /\ LastCall.pages_after = LastCall.pages_before + 1

\* a page that was written with a key and then deleted has been allocated again
C21_Witness ==
  /\ Len(hist) >= 3
  /\ hist[Len(hist) - 2].op = "write"
  /\ hist[Len(hist) - 2].outcome = "ok"
  /\ hist[Len(hist) - 1].op = "delete"
  /\ hist[Len(hist) - 1].outcome = "ok"
  /\ hist[Len(hist) - 1].key = hist[Len(hist) - 2].key
  /\ LastCall.op = "allocate"
  /\ LastCall.head_before = hist[Len(hist) - 1].key

\* a step of find: no call is recorded and none is counted
FindStep ==
  status = "open" /\ status' # "closed" /\ hist' = hist /\ nops' = nops /\ load' = load

\* a step of find, insert or delete
FacadeStep == status = "open" /\ status' # "closed"

\* page 0 is the root, the only page, live and a leaf
RootAllocated ==
  /\ meta'.root = 0
  /\ meta'.number_of_pages = 1
  /\ header'.root = 0
  /\ Len(file') = 1
  /\ ~DecodePage(file'[1], meta'.max_degree).deleted
  /\ DecodePage(file'[1], meta'.max_degree).children = <<>>
  /\ FindStep => DecodePage(file'[1], meta'.max_degree).keys = <<>>

\* C22: the first find, insert or delete on a store without a root allocates
\* page 0 as a live leaf, empty unless the call put a key in, and records it
\* as the root; with a root recorded, find changes neither the file nor the
\* meta data.
C22_LazyRootOnce ==
  [][/\ FacadeStep /\ meta.root = U32_MAX => RootAllocated
     /\ FindStep /\ meta.root # U32_MAX =>
          file' = file /\ header' = header /\ meta' = meta]_vars

\* find was the first call on a new store: a root exists and no insert or
\* delete has been made
C22_Witness ==
  /\ status = "open"
  /\ hist = <<>>
  /\ meta.root = 0
  /\ meta.number_of_pages = 1

\* C23: a split of a child during insert leaves the parent citing the two
\* halves next to each other around the promoted key and the old child no
\* more, and the descent goes on in the left half for a key below the
\* promoted key and in the right half otherwise.
C23_SpliceExact ==
  Len(hist) > 0 /\ LastCall.op = "insert" =>
    LastCall.splices \subseteq {"halves in place", "right half taken"}

\* C24: no insert panics on the descent index: no underflow of node_index
\* and no child index or insert position out of range.
C24_DescentIndexInRange ==
  Len(hist) > 0 /\ LastCall.op = "insert" =>
    LastCall.panic \notin {"insert: node_index underflow", "insert: children index",
                           "insert: Vec::insert index > len"}

\* C25: whenever insert adds a key to a leaf, the leaf held fewer than
\* max_keys keys before.
C25_LeafHasRoom ==
  Len(hist) > 0 /\ LastCall.op = "insert" =>
    "added to a full leaf" \notin LastCall.leaf

\* C26: every page allocate_new_page returns has its dirty flag set, on the
\* fresh-slot path and on the recycled path alike.
C26_AllocatedIsDirty ==
  Len(hist) > 0 /\ LastCall.op = "allocate" /\ LastCall.outcome = "ok" =>
    LastCall.node.changed

\* C27: when insert or delete returns Ok, every node the operation changed
\* in memory and wrote is on disk with its final in-memory content.
C27_NoLostUpdate ==
  Returned /\ LastCall.op \in {"insert", "delete"} => LastCall.lost = {}

\* C28: freed pages are reused last in, first out: after delete_page(a) and
\* delete_page(b) with a # b, the next two calls of allocate_new_page return
\* b, then a, and number_of_pages stays as it was.
C28_FreeListLifo ==
  /\ Len(hist) = 4
  /\ hist[1].op = "delete" /\ hist[1].outcome = "ok"
  /\ hist[2].op = "delete" /\ hist[2].outcome = "ok"
  /\ hist[1].key # hist[2].key
  /\ hist[3].op = "allocate" /\ hist[4].op = "allocate"
  => /\ hist[3].outcome = "ok" /\ hist[3].node.id = hist[2].key
     /\ hist[4].outcome = "ok" /\ hist[4].node.id = hist[1].key
     /\ hist[4].pages_after = hist[1].pages_before

\* C29: after every insert and delete that returns, no page reachable from
\* the root is on the free-list or stored as deleted.
C29_ReachableNotFree ==
  Returned /\ LastCall.op \in {"insert", "delete"} =>
    /\ Reachable(Ctx) \cap FreeList(Ctx) = {}
    /\ \A id \in Reachable(Ctx) : ~NodeAt(Ctx, id).deleted

\* whether the child references on disk that are reachable from the root
\* form a tree: no node cites a page twice, no two nodes cite the same page
\* and no page is reachable from itself
CitedOnce(c) ==
  LET reach == Reachable(c) IN
  /\ \A id \in reach :
        LET ch == NodeAt(c, id).children IN
        \A i, j \in 0 .. Len(ch) - 1 : At(ch, i) = At(ch, j) => i = j
  /\ \A a, b \in reach : a # b => ChildIds(c, a) \cap ChildIds(c, b) = {}
  /\ \A id \in reach : id \notin ReachFrom(c, {}, ChildIds(c, id) \cap PageIds(c))

\* C30: after every insert and delete that returns, the child references on
\* disk that are reachable from the root form a tree.
C30_ReferencesFormTree ==
  Returned /\ LastCall.op \in {"insert", "delete"} => CitedOnce(Ctx)

\* the context of the next state
CtxAfter == [Ctx EXCEPT !.file = file', !.header = header', !.meta = meta']

\* a step of insert that returned Ok
InsertReturned ==
  /\ status = "open" /\ status' = "open"
  /\ nops' # nops \/ load' # load
  /\ Last(hist').op = "insert" /\ Last(hist').outcome = "ok"

\* the root of the next state is a new page with the promoted key of the old
\* root as its only key and two pages allocated by the call as its children,
\* the header names it, and every leaf is one level deeper
RootGrown ==
  LET old == NodeAt(Ctx, meta.root)
      new == NodeAt(CtxAfter, meta'.root)
  IN /\ meta'.root # meta.root
     /\ header'.root = meta'.root
     /\ new.keys = <<At(old.keys, Len(old.keys) \div 2)>>
     /\ Len(new.children) = 2
     /\ At(new.children, 0) # At(new.children, 1)
     /\ \A i \in 0 .. 1 : At(new.children, i) \in PageIds(CtxAfter) \ Reachable(Ctx)
     /\ LeafDepths(CtxAfter) = {depth + 1 : depth \in LeafDepths(Ctx)}

RootWithoutKeys(c) ==
  /\ c.meta.root \in PageIds(c)
  /\ ~is_leaf(NodeAt(c, c.meta.root))
  /\ NodeAt(c, c.meta.root).keys = <<>>

\* C32: a root that delete leaves without keys has exactly one child, that
\* child becomes the root, and after delete returns the stored root is never
\* an internal node without keys.
C32_RootCollapse ==
  Len(hist) > 0 /\ LastCall.op = "delete" =>
    /\ "root with several children collapsed" \notin LastCall.notes
    /\ Returned => ~RootWithoutKeys(Ctx)

\* C33: whenever delete finds the target child below min_keys and no sibling
\* can lend, a sibling exists and a merge is made.
C33_MergeHasSibling ==
  Len(hist) > 0 /\ LastCall.op = "delete" =>
    "repair without a sibling" \notin LastCall.notes

\* a delete that merged two siblings
C33_Witness ==
  /\ Returned
  /\ LastCall.op = "delete"
  /\ "merged" \in LastCall.notes

\* ------------------------------------------------------------ page codec
\* The pager called as the test write_and_read_pages does: after some pages
\* were allocated, a node built with new_from_store is given to write_page,
\* and pages are read by id.  The last two calls are recorded.

\* the lengths <<keys, children, values>> of the nodes given to write_page:
\* empty, a leaf, a full leaf, a full internal node, every array full, and
\* one key, value or child more than a page holds
NodeShapes(d) ==
  {<<0, 0, 0>>, <<2, 0, 2>>, <<d - 1, 0, d - 1>>, <<d - 1, d, 0>>, <<d - 1, d, d - 1>>,
   <<d, 0, d>>, <<d - 1, d + 1, 0>>}

\* n numbers in u32 counting up from first
Fill(n, first) == [i \in 1 .. n |-> (first + i - 1) % (U32_MAX + 1)]

\* NodePage::new_from_store, then the dirty flag as the caller sets it
NodeGiven(id, deleted, changed, next, shape, first) ==
  [id |-> id, deleted |-> deleted, next_deleted_page |-> next,
   keys |-> Fill(shape[1], first), children |-> Fill(shape[2], first),
   values |-> Fill(shape[3], first), changed |-> changed]

CodecCall(op, arg, r, node) ==
  /\ Commit(r.c, PagerOutcome(r))
  /\ hist' = Record([op |-> op, key |-> arg, outcome |-> PagerOutcome(r),
                     node |-> node, wrote |-> r.c.file # file,
                     pages_before |-> meta.number_of_pages])
  /\ UNCHANGED <<ref, load>>

\* NodePager::allocate_new_page before the node is written
CodecAllocate ==
  /\ nops = 0
  /\ meta.number_of_pages < MaxPages
  /\ PagerAllocate

\* NodePager::write_page of a node given by the caller
CodecWrite(n) ==
  /\ status = "open"
  /\ nops = 0
  /\ nops' = 1
  /\ \E r \in {write_page(Ctx, n)} : CodecCall("write", n.id, r, n)

\* NodePager::read_page
CodecRead(page_id) ==
  /\ status = "open"
  /\ nops' = nops
  /\ \E r \in {read_page(Ctx, page_id)} :
       CodecCall("read", page_id,
                 [ok |-> r.ok,
                  c |-> IF r.panic THEN Abort(Ctx, "read_page: invalid id") ELSE Ctx],
                 r.node)

NextCodec ==
  \/ CodecAllocate
  \/ \E id \in {0, 1, U32_MAX}, deleted \in BOOLEAN, changed \in BOOLEAN,
        next \in {U32_MAX, 1}, shape \in NodeShapes(MaxDegree),
        first \in {0, U32_MAX - 1} :
       CodecWrite(NodeGiven(id, deleted, changed, next, shape, first))
  \/ \E page_id \in 0 .. MaxPages : CodecRead(page_id)

SpecCodec == Init /\ [][NextCodec]_vars

\* C34: write_page changes the file only for a node that is dirty, not
\* deleted and not of the sentinel id: a clean node gives Ok and nothing is
\* written, a dirty node that is deleted or has the sentinel id gives an
\* error and nothing is written.
C34_WriteOnlyDirtyLive ==
  Len(hist) > 0 /\ LastCall.op = "write" /\ "wrote" \in DOMAIN LastCall =>
    /\ ~LastCall.node.changed => LastCall.outcome = "ok" /\ ~LastCall.wrote
    /\ LastCall.node.changed /\ (LastCall.node.deleted \/ LastCall.node.id = U32_MAX)
         => LastCall.outcome = "err" /\ ~LastCall.wrote
    /\ LastCall.wrote =>
         LastCall.node.changed /\ ~LastCall.node.deleted /\ LastCall.node.id # U32_MAX

\* each of the three cases was met: a clean node, a dirty node refused and a
\* dirty live node that changed an allocated page
C34_Witness ==
  /\ Len(hist) > 0
  /\ LastCall.op = "write"
  /\ LastCall.wrote
  /\ LastCall.pages_before > LastCall.key

\* C35: read_page(id) fails with an error whenever id exceeds
\* number_of_pages, whatever the metadata is, also when number_of_pages is 0
\* and the bytes of the page are in the file.
C35_ReadBeyondPagesFails ==
  Len(hist) > 0 /\ LastCall.op = "read" /\ "wrote" \in DOMAIN LastCall
                /\ LastCall.key > LastCall.pages_before
    => LastCall.outcome = "err"

\* a node write_page is claimed to store faithfully: dirty, live, a real id,
\* no array longer than its slots and no element equal to the sentinel
Storable(n, d) ==
  /\ n.changed
  /\ ~n.deleted
  /\ n.id # U32_MAX
  /\ Len(n.keys) <= KeySlots(d)
  /\ Len(n.children) <= ChildSlots(d)
  /\ Len(n.values) <= ValueSlots(d)
  /\ \A a \in {n.keys, n.children, n.values} : \A i \in DOMAIN a : a[i] # U32_MAX

\* write_page(node) was followed by read_page(node.id)
WrittenThenRead ==
  /\ Len(hist) = 2
  /\ PrevCall.op = "write"
  /\ "wrote" \in DOMAIN PrevCall
  /\ LastCall.op = "read"
  /\ LastCall.key = PrevCall.key

\* C36: for a dirty live node with at most D-1 keys, D children and D-1
\* values, none of them the sentinel, write_page and then read_page of its id
\* return a node with the same id, deleted flag, next_deleted_page, keys,
\* children and values.
C36_CodecRoundTrip ==
  WrittenThenRead /\ Storable(PrevCall.node, Degree(Ctx)) =>
    /\ PrevCall.outcome = "ok"
    /\ LastCall.outcome = "ok"
    /\ \A f \in {"id", "deleted", "next_deleted_page", "keys", "children", "values"} :
         LastCall.node[f] = PrevCall.node[f]

\* a node with every array full and a free-list link went through the codec
C36_Witness ==
  /\ WrittenThenRead
  /\ Storable(PrevCall.node, Degree(Ctx))
  /\ Len(PrevCall.node.keys) = KeySlots(Degree(Ctx))
  /\ Len(PrevCall.node.children) = ChildSlots(Degree(Ctx))
  /\ Len(PrevCall.node.values) = ValueSlots(Degree(Ctx))
  /\ PrevCall.node.next_deleted_page # U32_MAX
  /\ LastCall.outcome = "ok"

\* ------------------------------------------------------------ failing reads
\* The backing file loses its tail between two calls, so that read_exact of
\* a page past the new end fails: the only failure the pager meets that does
\* not come from its own arguments.
Truncate(n) ==
  /\ status = "open"
  /\ Calling
  /\ n < Len(file)
  /\ file' = SubSeq(file, 1, n)
  /\ UNCHANGED <<header, meta, status, ref, hist>>

NextFaults ==
  \/ \E key \in Keys, value \in Values : Insert(key, value)
  \/ \E key \in Keys : Delete(key)
  \/ \E key \in Keys : Find(key)
  \/ \E n \in 0 .. MaxPages + 2 : Truncate(n)

SpecFaults == Init /\ [][NextFaults]_vars

\* the panics of Result::unwrap on a failed call of the pager in
\* NodePage::split, NodePage::insert, NodePage::delete and the repairs
UnwrapPanics ==
  {"split: allocate unwrap", "split: write unwrap",
   "insert: read_page unwrap", "insert: write_page unwrap",
   "delete: read_page unwrap", "delete: write_page unwrap",
   "borrow: write_page unwrap", "merge: write_page unwrap",
   "merge: delete_page unwrap"}

\* C37: a failure of a page read, write or allocation during insert or
\* delete, at any depth, comes back to the caller as an Error of the facade
\* and never ends the operation by a panic.
C37_PagerFailureIsError ==
  Len(hist) > 0 /\ LastCall.op \in {"insert", "delete"} =>
    LastCall.panic \notin UnwrapPanics

\* C38: no page is leaked: after every insert or delete that returns, every
\* slot with an id below number_of_pages is reachable from the root or on
\* the free-list, the page of a node that was split and the page of a
\* collapsed root among them.
C38_NoPageLeaked ==
  Returned /\ LastCall.op \in {"insert", "delete"} =>
    \A id \in 0 .. meta.number_of_pages - 1 :
      id \in Reachable(Ctx) \cup FreeList(Ctx)

\* ------------------------------------------------------------ the ends of u32
\* insert called with keys and values at the upper end of u32, the sentinel
\* among them, and find of the key right after it
EdgeKeys == {1, U32_MAX - 1, U32_MAX}
EdgeValues == {1, U32_MAX}

\* the reachable leaves whose value array is not as long as their key array
UnevenLeaves(c) ==
  {id \in LeafIds(c) : Len(NodeAt(c, id).values) # Len(NodeAt(c, id).keys)}

InsertEdge(key, value) ==
  /\ status = "open"
  /\ Calling
  /\ \E r \in {StoreInsert(Ctx, key, value)} :
       \E f \in {StoreFind(r.c, key)} :
       /\ Commit(f.c, IF r.outcome = "ok" THEN f.outcome ELSE r.outcome)
       /\ ref' = IF r.outcome = "ok" /\ key \in Keys /\ value \in Values
                    /\ FindResult(Ctx, key) = None
                   THEN [ref EXCEPT ![key] = value] ELSE ref
       /\ hist' = Record([op |-> "insert", key |-> key, value |-> value,
                          outcome |-> r.outcome,
                          absent |-> FindResult(Ctx, key) = None,
                          even |-> UnevenLeaves(Ctx) = {},
                          found |-> f.res,
                          uneven |-> UnevenLeaves(f.c),
                          panic |-> f.c.panic])

NextRange ==
  \/ \E key \in Keys, value \in Values : Insert(key, value)
  \/ \E key \in Keys : Find(key)
  \/ \E key \in EdgeKeys, value \in EdgeValues : InsertEdge(key, value)

SpecRange == Init /\ [][NextRange]_vars

\* C39: every key and value of u32 can be stored, the sentinel included:
\* insert(k, v) on a store without k, followed by find(k), gives v, and the
\* leaves read back from disk have as many values as keys.
C39_FullRangeStorable ==
  Len(hist) > 0 /\ "found" \in DOMAIN LastCall /\ LastCall.absent /\ LastCall.even
                /\ LastCall.outcome = "ok"
    => LastCall.found = LastCall.value /\ LastCall.uneven = {}

====
